---- MODULE Spec2Model ----
(***************************************************************************)
(* State machine of the sender hook (useSender) of                         *)
(* web-app/src/components/sender/Sender.tsx.                               *)
(*                                                                         *)
(* One action is one JavaScript task of the hook followed by the React     *)
(* render (and the ref-sync effects) that the task's batched state updates *)
(* cause: a user command up to its first await, a backend notification up  *)
(* to its first await, the continuation after an await, or a timer         *)
(* callback.  Tasks run to completion and interleave freely.               *)
(*                                                                         *)
(* Strings that the code takes apart (paths, progress payloads) are        *)
(* sequences of one-character strings.  A nullable value is <<>> (null /   *)
(* undefined) or <<v>>.                                                    *)
(***************************************************************************)
EXTENDS Integers, Sequences, FiniteSets, Bags, TLC

(* ------------------------------ bounds -------------------------------- *)

\* Most continuations and timers that may be outstanding at one time.
MaxInFlight == 2

\* Most runs of the listener setup effect over the life of the page.
MaxSetups == 3

(* --------------------------- SenderStatus ----------------------------- *)

IDLE == "IDLE"

FILE_SELECTED == "FILE_SELECTED"

WAITING_FOR_RECEIVER == "WAITING_FOR_RECEIVER"

TRANSFERRING == "TRANSFERRING"

TRANSFER_COMPLETE == "TRANSFER_COMPLETE"

TRANSFER_STOPPED == "TRANSFER_STOPPED"

SenderStatus ==
  {IDLE, FILE_SELECTED, WAITING_FOR_RECEIVER, TRANSFERRING,
   TRANSFER_COMPLETE, TRANSFER_STOPPED}

(* ------------------------------ time --------------------------------- *)

\* Date.now(): every task of the model reads the clock at one instant, so
\* every duration is 0.
Now == 1

(* ------------------------- nullable values ---------------------------- *)

Null == <<>>

Some(v) == <<v>>

\* JavaScript truthiness of a nullable string: null and '' are falsy.
TruthyStr(o) == o # Null /\ o[1] # <<>>

\* JavaScript truthiness of a nullable number: null, 0 and NaN are falsy.
TruthyNum(o) == o # Null /\ o[1] > 0

(* ------------------------- environment inputs ------------------------- *)

\* "/a"
PathFile == <<"/", "a">>

Paths == {PathFile}

PathTypes == {"file"}

Tickets == {"abc123"}

FileSizes == {2048}

\* "100:1000:0"
PayloadA == <<"1", "0", "0", ":", "1", "0", "0", "0", ":", "0">>

\* "0:0:0"
PayloadZero == <<"0", ":", "0", ":", "0">>

\* "50:1000" (two fields)
PayloadShort == <<"5", "0", ":", "1", "0", "0", "0">>

Payloads == {PayloadA, PayloadZero, PayloadShort}

\* "x:1000:0" (three fields, the first not a number)
PayloadNaN == <<"x", ":", "1", "0", "0", "0", ":", "0">>

PayloadsWithNaN == Payloads \cup {PayloadNaN}

(* --------------------------- string helpers --------------------------- *)

RECURSIVE SplitFrom(_, _, _, _)
\* s.split(sep): acc holds the finished parts, cur the part being read.
SplitFrom(s, sep, acc, cur) ==
  IF s = <<>> THEN Append(acc, cur)
  ELSE IF Head(s) = sep THEN SplitFrom(Tail(s), sep, Append(acc, cur), <<>>)
  ELSE SplitFrom(Tail(s), sep, acc, Append(cur, Head(s)))

Split(s, sep) == SplitFrom(s, sep, <<>>, <<>>)

DigitValue(c) ==
  CASE c = "0" -> 0 [] c = "1" -> 1 [] c = "2" -> 2 [] c = "3" -> 3
    [] c = "4" -> 4 [] c = "5" -> 5 [] c = "6" -> 6 [] c = "7" -> 7
    [] c = "8" -> 8 [] c = "9" -> 9 [] OTHER -> -1

\* The value NaN.  No payload of the model parses to a negative number, so
\* every comparison NaN > 0 is false, as in JavaScript.
NaN == -1

RECURSIVE ParseDigits(_, _)
\* The leading decimal digits of s, read onto acc; stops at the first other
\* character.
ParseDigits(s, acc) ==
  IF s = <<>> \/ DigitValue(Head(s)) < 0 THEN acc
  ELSE ParseDigits(Tail(s), acc * 10 + DigitValue(Head(s)))

\* parseInt(s, 10) for a string without sign or leading blanks.
ParseInt(s) ==
  IF s = <<>> \/ DigitValue(Head(s)) < 0 THEN NaN ELSE ParseDigits(s, 0)

Unknown == <<"U", "n", "k", "n", "o", "w", "n">>

\* path.split('/').pop() || 'Unknown'
FileNameOf(path) ==
  LET parts == Split(path, "/")
      last == parts[Len(parts)]
  IN IF last = <<>> THEN Unknown ELSE last

\* path?.split('/').pop() || 'Unknown' for a nullable path
FileNameOfNullable(o) == IF o = Null THEN Unknown ELSE FileNameOf(o[1])

(* ----------------------------- progress ------------------------------- *)

\* speedInt / 1000.0 (whole part; NaN stays NaN)
SpeedBps(speedInt) == IF speedInt = NaN THEN NaN ELSE speedInt \div 1000

\* totalBytes > 0 ? (bytesTransferred / totalBytes) * 100 : 0 (whole part)
Percentage(bytesTransferred, totalBytes) ==
  IF totalBytes > 0
    THEN IF bytesTransferred = NaN THEN NaN
         ELSE (bytesTransferred * 100) \div totalBytes
    ELSE 0

\* The progressData object built from the three fields of a payload.
ProgressData(parts) ==
  LET bytesTransferred == ParseInt(parts[1])
      totalBytes == ParseInt(parts[2])
      speedInt == ParseInt(parts[3])
  IN [bytesTransferred |-> bytesTransferred,
      totalBytes |-> totalBytes,
      speedBps |-> SpeedBps(speedInt),
      percentage |-> Percentage(bytesTransferred, totalBytes)]

\* payload.split(':') of every payload of the model.
PayloadParts == [payload \in PayloadsWithNaN |-> Split(payload, ":")]

\* The progressData of every payload of the model that has three fields.
PayloadData ==
  [payload \in {q \in PayloadsWithNaN : Len(PayloadParts[q]) = 3} |->
     ProgressData(PayloadParts[payload])]

\* The debounce timer after a sample: the listener clears the armed timer,
\* if any, and arms one that carries the new sample.
PendingUpdate_KeepsFirst(armed, progressData) ==
  IF armed # Null THEN armed ELSE Some(progressData)

PendingUpdate(armed, progressData) == Some(progressData)

\* The updater of the progress listener moves the status to TRANSFERRING.
ProgressStartsTransfer_AnyState(prev, totalBytes) == totalBytes > 0

ProgressStartsTransfer(prev, totalBytes) ==
  prev = WAITING_FOR_RECEIVER /\ totalBytes > 0

(* ------------------------------ state --------------------------------- *)

VARIABLES
  senderStatus,          \* useState<SenderStatus>
  ticket,                \* useState<string | null>
  selectedPath,          \* useState<string | null> (selectedPathRef follows it)
  pathType,              \* useState<'file' | 'directory' | null>
  isLoading,             \* useState(false)
  transferMetadata,      \* useState<TransferMetadata | null>
  transferProgress,      \* useState<TransferProgress | null>
  transferStartTime,     \* useState<number | null> (transferStartTimeRef follows it)
  wasManuallyStopped,    \* wasManuallyStoppedRef.current
  lastProgress,          \* lastProgressRef.current
  alertDialog,           \* useState<AlertDialogState>
  progressUpdateTimeout, \* the armed debounce timer: Null or <<progressData>>
  checkPathPending,      \* bag of awaited check_path_type calls
  startPending,          \* bag of awaited start_sharing calls
  stopPending,           \* bag of awaited stop_sharing calls
  fileSizePending,       \* bag of awaited get_file_size calls
  cleanupPending,        \* stop_sharing calls issued without await (cleanup)
  completeTimers,        \* armed setTimeout(0) of the completed listener
  failedTimers,          \* armed setTimeout(0) of the failed listener
  failedDecayTimers,     \* armed setTimeout(2000) of the failed listener
  stopDecayTimers,       \* armed setTimeout(2000) of stopSharing
  shareStarted,          \* the backend has started a share (it emits events)
  listenersSetupRef,     \* listenersSetupRef.current
  setups,                \* one record per run of the listener setup effect
  outcomes               \* history: terminal states entered by this attempt

vars ==
  <<senderStatus, ticket, selectedPath, pathType, isLoading, transferMetadata,
    transferProgress, transferStartTime, wasManuallyStopped, lastProgress,
    alertDialog, progressUpdateTimeout, checkPathPending, startPending,
    stopPending, fileSizePending, cleanupPending, completeTimers,
    failedTimers, failedDecayTimers, stopDecayTimers, shareStarted,
    listenersSetupRef, setups, outcomes>>

\* The values the user interface reads besides the status.
selection == <<selectedPath, pathType>>

timers ==
  <<progressUpdateTimeout, completeTimers, failedTimers, failedDecayTimers,
    stopDecayTimers>>

pending ==
  <<checkPathPending, startPending, stopPending, fileSizePending,
    cleanupPending>>

\* The listener setup effect's state.
listeners == <<listenersSetupRef, setups>>

\* Continuations and timers outstanding (the debounce timer has its own slot).
InFlight ==
  BagCardinality(checkPathPending) + BagCardinality(startPending)
    + BagCardinality(stopPending) + BagCardinality(fileSizePending)
    + cleanupPending
    + completeTimers + failedTimers + failedDecayTimers + stopDecayTimers

BagAdd(b, x) == b (+) SetToBag({x})

BagRemove(b, x) == b (-) SetToBag({x})

\* The values of the hook's useState and useRef calls on the first render.
InitialState ==
  /\ senderStatus = IDLE
  /\ ticket = Null
  /\ selectedPath = Null
  /\ pathType = Null
  /\ isLoading = FALSE
  /\ transferMetadata = Null
  /\ transferProgress = Null
  /\ transferStartTime = Null
  /\ wasManuallyStopped = FALSE
  /\ lastProgress = Null
  /\ alertDialog = [isOpen |-> FALSE]
  /\ progressUpdateTimeout = Null
  /\ checkPathPending = EmptyBag
  /\ startPending = EmptyBag
  /\ stopPending = EmptyBag
  /\ fileSizePending = EmptyBag
  /\ cleanupPending = 0
  /\ completeTimers = 0
  /\ failedTimers = 0
  /\ failedDecayTimers = 0
  /\ stopDecayTimers = 0
  /\ shareStarted = FALSE
  /\ outcomes = -1

\* The events the hook listens to, in the order setupListeners registers them.
Events == <<"transfer-progress", "transfer-completed", "transfer-failed">>

EventNames == {Events[n] : n \in 1..Len(Events)}

\* A run of the setup effect that reached `listenersSetupRef.current = true`:
\* handles are the events whose unlisten function has been assigned
\* (unlistenProgress, unlistenComplete, unlistenFailed), installed the events
\* whose listener of this run is registered, disposed whether the cleanup
\* returned by the run has been called.
NewSetup == [handles |-> {}, installed |-> {}, disposed |-> FALSE]

\* A run whose three listen calls have resolved and that is not disposed.
InstalledSetup ==
  [handles |-> EventNames, installed |-> EventNames, disposed |-> FALSE]

\* The hook once its listeners are registered: every operation and every
\* backend event below acts on this hook.
Init ==
  /\ InitialState
  /\ listenersSetupRef = TRUE
  /\ setups = <<InstalledSetup>>

\* The hook after its first render, before the setup effect runs.
MountInit ==
  /\ InitialState
  /\ listenersSetupRef = FALSE
  /\ setups = <<>>

(* ------------------------ history of an attempt ----------------------- *)

Terminal == {TRANSFER_COMPLETE, TRANSFER_STOPPED}

Sharing == {WAITING_FOR_RECEIVER, TRANSFERRING}

\* outcomes is -1 outside an attempt's transfer; it becomes 0 when the status
\* enters TRANSFERRING, counts the entries into a terminal state from then on
\* (2 stands for "two or more"), and returns to -1 when the status is IDLE.
NextOutcomes(old, new, n) ==
  IF new = IDLE THEN -1
  ELSE IF new = TRANSFERRING /\ old # TRANSFERRING THEN 0
  ELSE IF n >= 0 /\ new \in Terminal /\ new # old
    THEN IF n < 2 THEN n + 1 ELSE 2
  ELSE n

Track == outcomes' = NextOutcomes(senderStatus, senderStatus', outcomes)

\* The effect that copies transferProgress into lastProgressRef runs after a
\* render in which transferProgress changed; ref is the value the task left.
SyncLastProgress(ref) ==
  lastProgress' = IF transferProgress' # transferProgress
                    THEN transferProgress' ELSE ref

(* --------------------------- user commands ---------------------------- *)

\* handleFileSelect(path), up to the await of check_path_type.
HandleFileSelect(path) ==
  /\ InFlight < MaxInFlight
  /\ selectedPath' = Some(path)
  /\ checkPathPending' = BagAdd(checkPathPending, path)
  /\ UNCHANGED <<senderStatus, ticket, pathType, isLoading, transferMetadata,
                 transferProgress, transferStartTime, wasManuallyStopped,
                 lastProgress, alertDialog, progressUpdateTimeout,
                 startPending, stopPending, fileSizePending, completeTimers,
                 failedTimers, failedDecayTimers, stopDecayTimers>>
  /\ UNCHANGED <<shareStarted, cleanupPending, listeners>>
  /\ Track

\* handleFileSelect after check_path_type resolved with type.
CheckPathTypeResolved(path, type) ==
  /\ BagIn(path, checkPathPending)
  /\ checkPathPending' = BagRemove(checkPathPending, path)
  /\ pathType' = Some(type)
  /\ senderStatus' = FILE_SELECTED
  /\ UNCHANGED <<ticket, selectedPath, isLoading, transferMetadata,
                 transferProgress, transferStartTime, wasManuallyStopped,
                 lastProgress, alertDialog, progressUpdateTimeout,
                 startPending, stopPending, fileSizePending, completeTimers,
                 failedTimers, failedDecayTimers, stopDecayTimers>>
  /\ UNCHANGED <<shareStarted, cleanupPending, listeners>>
  /\ Track

\* handleFileSelect after check_path_type rejected (the catch block).
CheckPathTypeRejected(path) ==
  /\ BagIn(path, checkPathPending)
  /\ checkPathPending' = BagRemove(checkPathPending, path)
  /\ pathType' = Null
  /\ UNCHANGED <<senderStatus, ticket, selectedPath, isLoading,
                 transferMetadata, transferProgress, transferStartTime,
                 wasManuallyStopped, lastProgress, alertDialog,
                 progressUpdateTimeout, startPending, stopPending,
                 fileSizePending, completeTimers, failedTimers,
                 failedDecayTimers, stopDecayTimers>>
  /\ UNCHANGED <<shareStarted, cleanupPending, listeners>>
  /\ Track

\* An awaited start_sharing call: the path passed to the backend.
StartCall(path) == [path |-> path]

\* startSharing(), up to the await of start_sharing.
StartSharing ==
  \/ /\ ~TruthyStr(selectedPath)
     /\ UNCHANGED vars
  \/ /\ TruthyStr(selectedPath)
     /\ InFlight < MaxInFlight
     /\ isLoading' = TRUE
     /\ startPending' =
          BagAdd(startPending, StartCall(selectedPath[1]))
     /\ UNCHANGED <<senderStatus, ticket, selectedPath, pathType,
                    transferMetadata, transferProgress, transferStartTime,
                    wasManuallyStopped, lastProgress, alertDialog,
                    progressUpdateTimeout, checkPathPending, stopPending,
                    fileSizePending, completeTimers, failedTimers,
                    failedDecayTimers, stopDecayTimers>>
     /\ UNCHANGED <<shareStarted, cleanupPending, listeners>>
     /\ Track

\* The ticket startSharing stores when start_sharing resolved with result.
TicketStored_Dropped(result) == Null

TicketStored(result) == Some(result)

\* startSharing after start_sharing resolved with result (and the finally).
StartSharingResolved(call, result) ==
  /\ BagIn(call, startPending)
  /\ startPending' = BagRemove(startPending, call)
  /\ ticket' = TicketStored(result)
  /\ senderStatus' = WAITING_FOR_RECEIVER
  /\ isLoading' = FALSE
  /\ UNCHANGED <<selectedPath, pathType, transferMetadata, transferProgress,
                 transferStartTime, wasManuallyStopped, lastProgress,
                 alertDialog, progressUpdateTimeout, checkPathPending,
                 stopPending, fileSizePending, completeTimers, failedTimers,
                 failedDecayTimers, stopDecayTimers>>
  /\ shareStarted' = TRUE
  /\ UNCHANGED <<cleanupPending, listeners>>
  /\ Track

\* showAlert(title, description, type); title, description and type are
\* shown to the user and read by nothing else.
ShowAlert(title) == alertDialog' = [isOpen |-> TRUE]

\* startSharing after start_sharing rejected (the catch and the finally).
StartSharingRejected(call) ==
  /\ BagIn(call, startPending)
  /\ startPending' = BagRemove(startPending, call)
  /\ ShowAlert("Sharing Failed")
  /\ isLoading' = FALSE
  /\ UNCHANGED <<senderStatus, ticket, selectedPath, pathType,
                 transferMetadata, transferProgress, transferStartTime,
                 wasManuallyStopped, lastProgress, progressUpdateTimeout,
                 checkPathPending, stopPending, fileSizePending,
                 completeTimers, failedTimers, failedDecayTimers,
                 stopDecayTimers>>
  /\ UNCHANGED <<shareStarted, cleanupPending, listeners>>
  /\ Track

\* The reset that stopSharing performs with every transition to IDLE.
ResetToIdle_KeepsFlag ==
  /\ senderStatus' = IDLE
  /\ ticket' = Null
  /\ selectedPath' = Null
  /\ pathType' = Null
  /\ transferProgress' = Null
  /\ transferStartTime' = Null
  /\ transferMetadata' = Null
  /\ UNCHANGED wasManuallyStopped
  /\ SyncLastProgress(lastProgress)

ResetToIdle ==
  /\ senderStatus' = IDLE
  /\ ticket' = Null
  /\ selectedPath' = Null
  /\ pathType' = Null
  /\ transferProgress' = Null
  /\ transferStartTime' = Null
  /\ transferMetadata' = Null
  /\ wasManuallyStopped' = FALSE
  /\ SyncLastProgress(lastProgress)

\* stoppedMetadata of stopSharing.
StoppedMetadata ==
  [fileName |-> FileNameOfNullable(selectedPath),
   fileSize |-> 0,
   duration |-> 0,
   startTime |-> IF TruthyNum(transferStartTime)
                   THEN transferStartTime[1] ELSE Now,
   endTime |-> Now,
   wasStopped |-> Some(TRUE)]

\* The third branch of stopSharing: the reset from a finished transfer.
StopResets_UnlessSharing(currentStatus) == currentStatus \notin Sharing

StopResets(currentStatus) ==
  currentStatus = TRANSFER_COMPLETE \/ currentStatus = TRANSFER_STOPPED

\* stopSharing() (and resetForNewTransfer()), up to its first await or return.
StopSharing ==
  \/ /\ senderStatus = WAITING_FOR_RECEIVER
     /\ InFlight < MaxInFlight
     /\ stopPending' = BagAdd(stopPending, senderStatus)
     /\ UNCHANGED <<senderStatus, ticket, selectedPath, pathType, isLoading,
                    transferMetadata, transferProgress, transferStartTime,
                    wasManuallyStopped, lastProgress, alertDialog,
                    progressUpdateTimeout, checkPathPending, startPending,
                    fileSizePending, completeTimers, failedTimers,
                    failedDecayTimers, stopDecayTimers>>
     /\ UNCHANGED <<shareStarted, cleanupPending, listeners>>
     /\ Track
  \/ /\ senderStatus = TRANSFERRING
     /\ InFlight < MaxInFlight
     /\ wasManuallyStopped' = TRUE
     /\ transferMetadata' = Some(StoppedMetadata)
     /\ senderStatus' = TRANSFER_STOPPED
     /\ stopPending' = BagAdd(stopPending, senderStatus)
     /\ UNCHANGED <<ticket, selectedPath, pathType, isLoading,
                    transferProgress, transferStartTime, lastProgress,
                    alertDialog, progressUpdateTimeout, checkPathPending,
                    startPending, fileSizePending, completeTimers,
                    failedTimers, failedDecayTimers, stopDecayTimers>>
     /\ UNCHANGED <<shareStarted, cleanupPending, listeners>>
     /\ Track
  \/ /\ StopResets(senderStatus)
     /\ InFlight < MaxInFlight
     /\ ResetToIdle
     /\ cleanupPending' = cleanupPending + 1
     /\ UNCHANGED <<isLoading, alertDialog, progressUpdateTimeout,
                    checkPathPending, startPending, stopPending,
                    fileSizePending, completeTimers, failedTimers,
                    failedDecayTimers, stopDecayTimers>>
     /\ UNCHANGED <<shareStarted, listeners>>
     /\ Track
  \/ /\ senderStatus \in {IDLE, FILE_SELECTED}
     /\ UNCHANGED vars

\* stopSharing after stop_sharing resolved; currentStatus is the status the
\* call was made in.
StopSharingResolved(currentStatus) ==
  /\ BagIn(currentStatus, stopPending)
  /\ stopPending' = BagRemove(stopPending, currentStatus)
  /\ \/ /\ currentStatus = WAITING_FOR_RECEIVER
        /\ ResetToIdle
        /\ UNCHANGED stopDecayTimers
     \/ /\ currentStatus = TRANSFERRING
        /\ stopDecayTimers' = stopDecayTimers + 1
        /\ UNCHANGED <<senderStatus, ticket, selectedPath, pathType,
                       transferMetadata, transferProgress, transferStartTime,
                       wasManuallyStopped, lastProgress>>
  /\ UNCHANGED <<isLoading, alertDialog, progressUpdateTimeout,
                 checkPathPending, startPending, fileSizePending,
                 completeTimers, failedTimers, failedDecayTimers>>
  /\ UNCHANGED <<shareStarted, cleanupPending, listeners>>
  /\ Track

\* stopSharing after stop_sharing rejected (the catch block).
StopSharingRejected(currentStatus) ==
  /\ BagIn(currentStatus, stopPending)
  /\ stopPending' = BagRemove(stopPending, currentStatus)
  /\ ShowAlert("Stop Sharing Failed")
  /\ UNCHANGED <<senderStatus, ticket, selectedPath, pathType, isLoading,
                 transferMetadata, transferProgress, transferStartTime,
                 wasManuallyStopped, lastProgress, progressUpdateTimeout,
                 checkPathPending, startPending, fileSizePending,
                 completeTimers, failedTimers, failedDecayTimers,
                 stopDecayTimers>>
  /\ UNCHANGED <<shareStarted, cleanupPending, listeners>>
  /\ Track

\* The stop_sharing call that stopSharing issued without await settled: a
\* rejection runs the .catch callback, which only logs a warning; a resolution
\* runs nothing.
CleanupSettled ==
  /\ cleanupPending > 0
  /\ cleanupPending' = cleanupPending - 1
  /\ UNCHANGED <<senderStatus, ticket, selectedPath, pathType, isLoading,
                 transferMetadata, transferProgress, transferStartTime,
                 wasManuallyStopped, lastProgress, alertDialog,
                 progressUpdateTimeout, checkPathPending, startPending,
                 stopPending, fileSizePending, completeTimers, failedTimers,
                 failedDecayTimers, stopDecayTimers>>
  /\ UNCHANGED <<shareStarted, listeners>>
  /\ Track

\* The setTimeout(..., 2000) callback of stopSharing.
StopDecayTimerFires ==
  /\ stopDecayTimers > 0
  /\ stopDecayTimers' = stopDecayTimers - 1
  /\ ResetToIdle
  /\ UNCHANGED <<isLoading, alertDialog, progressUpdateTimeout,
                 checkPathPending, startPending, stopPending,
                 fileSizePending, completeTimers, failedTimers,
                 failedDecayTimers>>
  /\ UNCHANGED <<shareStarted, cleanupPending, listeners>>
  /\ Track

\* closeAlert()
CloseAlert ==
  /\ alertDialog' = [alertDialog EXCEPT !.isOpen = FALSE]
  /\ UNCHANGED <<senderStatus, ticket, selectedPath, pathType, isLoading,
                 transferMetadata, transferProgress, transferStartTime,
                 wasManuallyStopped, lastProgress, progressUpdateTimeout,
                 checkPathPending, startPending, stopPending,
                 fileSizePending, completeTimers, failedTimers,
                 failedDecayTimers, stopDecayTimers, shareStarted,
                 cleanupPending, listeners, outcomes>>

(* ----------------------- backend notifications ----------------------- *)

\* The 'transfer-progress' listener.
OnProgress(payload) ==
  LET parts == PayloadParts[payload] IN
  /\ shareStarted
  /\ \/ /\ Len(parts) # 3
        /\ UNCHANGED vars
     \/ /\ Len(parts) = 3
        /\ LET progressData == PayloadData[payload] IN
           /\ IF ProgressStartsTransfer(senderStatus, progressData.totalBytes)
                THEN /\ senderStatus' = TRANSFERRING
                     /\ transferStartTime' = Some(Now)
                     /\ transferProgress' = Null
                     /\ transferMetadata' = Null
                     /\ wasManuallyStopped' = FALSE
                ELSE UNCHANGED <<senderStatus, transferStartTime,
                                 transferProgress, transferMetadata,
                                 wasManuallyStopped>>
           /\ progressUpdateTimeout' =
                PendingUpdate(progressUpdateTimeout, progressData)
           /\ SyncLastProgress(Some(progressData))
        /\ UNCHANGED <<ticket, selectedPath, pathType, isLoading, alertDialog,
                       checkPathPending, startPending, stopPending,
                       fileSizePending, completeTimers, failedTimers,
                       failedDecayTimers, stopDecayTimers>>
        /\ UNCHANGED <<shareStarted, cleanupPending, listeners>>
        /\ Track

\* The setTimeout(..., 100) callback of the progress listener.
ProgressTimerFires ==
  /\ progressUpdateTimeout # Null
  /\ transferProgress' = progressUpdateTimeout
  /\ progressUpdateTimeout' = Null
  /\ SyncLastProgress(lastProgress)
  /\ UNCHANGED <<senderStatus, ticket, selectedPath, pathType, isLoading,
                 transferMetadata, transferStartTime, wasManuallyStopped,
                 alertDialog, checkPathPending, startPending, stopPending,
                 fileSizePending, completeTimers, failedTimers,
                 failedDecayTimers, stopDecayTimers>>
  /\ UNCHANGED <<shareStarted, cleanupPending, listeners>>
  /\ Track

\* startTime ? endTime - startTime : 0
Duration(startTime, endTime) ==
  IF TruthyNum(startTime) THEN endTime - startTime[1] ELSE 0

\* startTime || endTime
StartOrEnd(startTime, endTime) ==
  IF TruthyNum(startTime) THEN startTime[1] ELSE endTime

\* The 'transfer-completed' listener goes on to build metadata.
CompletionAccepted_NoStateCheck == ~wasManuallyStopped

CompletionAccepted ==
  /\ ~wasManuallyStopped
  /\ senderStatus = TRANSFERRING

\* currentState is written by an updater handed to setSenderStatus.  React
\* runs the updater inside that call only when the component has no update
\* queued; otherwise it runs with the next render, after the listener has
\* compared the still-null currentState with TRANSFERRING and returned.
CurrentStateUnread == TRUE

\* An awaited get_file_size call with the values the listener read before it.
FileSizeCall(path, startTime, endTime) ==
  [path |-> path,
   duration |-> Duration(startTime, endTime),
   startTime |-> StartOrEnd(startTime, endTime),
   endTime |-> endTime]

\* The metadata object of the completed listener (it has no wasStopped).
CompletedMetadata(fileName, fileSize, duration, startTime, endTime) ==
  [fileName |-> fileName,
   fileSize |-> fileSize,
   duration |-> duration,
   startTime |-> startTime,
   endTime |-> endTime,
   wasStopped |-> Null]

\* The 'transfer-completed' listener, up to the await of get_file_size (to
\* its end when no path is selected).
OnCompleted ==
  /\ shareStarted
  /\ \/ /\ ~CompletionAccepted
        /\ UNCHANGED vars
     \/ /\ CompletionAccepted
        /\ CurrentStateUnread
        /\ UNCHANGED vars
     \/ /\ CompletionAccepted
        /\ InFlight < MaxInFlight
        /\ progressUpdateTimeout' = Null
        /\ transferProgress' = Null
        /\ SyncLastProgress(lastProgress)
        /\ IF TruthyStr(selectedPath)
             THEN /\ fileSizePending' =
                       BagAdd(fileSizePending,
                              FileSizeCall(selectedPath[1], transferStartTime,
                                           Now))
                  /\ UNCHANGED <<transferMetadata, completeTimers>>
             ELSE /\ transferMetadata' =
                       Some(CompletedMetadata(
                              Unknown, 0, Duration(transferStartTime, Now),
                              StartOrEnd(transferStartTime, Now), Now))
                  /\ completeTimers' = completeTimers + 1
                  /\ UNCHANGED fileSizePending
        /\ UNCHANGED <<senderStatus, ticket, selectedPath, pathType, isLoading,
                       transferStartTime, wasManuallyStopped, alertDialog,
                       checkPathPending, startPending, stopPending,
                       failedTimers, failedDecayTimers, stopDecayTimers>>
        /\ UNCHANGED <<shareStarted, cleanupPending, listeners>>
        /\ Track

\* The completed listener after get_file_size settled: fileSize is the value
\* it resolved with, or 0 when it rejected.
GetFileSizeSettled(call, fileSize) ==
  /\ BagIn(call, fileSizePending)
  /\ fileSizePending' = BagRemove(fileSizePending, call)
  /\ transferMetadata' =
       Some(CompletedMetadata(FileNameOf(call.path), fileSize, call.duration,
                              call.startTime, call.endTime))
  /\ completeTimers' = completeTimers + 1
  /\ UNCHANGED <<senderStatus, ticket, selectedPath, pathType, isLoading,
                 transferProgress, transferStartTime, wasManuallyStopped,
                 lastProgress, alertDialog, progressUpdateTimeout,
                 checkPathPending, startPending, stopPending, failedTimers,
                 failedDecayTimers, stopDecayTimers>>
  /\ UNCHANGED <<shareStarted, cleanupPending, listeners>>
  /\ Track

\* The setTimeout(..., 0) callback of the completed listener.
CompleteTimerFires ==
  /\ completeTimers > 0
  /\ completeTimers' = completeTimers - 1
  /\ senderStatus' = TRANSFER_COMPLETE
  /\ UNCHANGED <<ticket, selectedPath, pathType, isLoading, transferMetadata,
                 transferProgress, transferStartTime, wasManuallyStopped,
                 lastProgress, alertDialog, progressUpdateTimeout,
                 checkPathPending, startPending, stopPending,
                 fileSizePending, failedTimers, failedDecayTimers,
                 stopDecayTimers>>
  /\ UNCHANGED <<shareStarted, cleanupPending, listeners>>
  /\ Track

\* The metadata object of the failed listener.
FailedMetadata ==
  [fileName |-> FileNameOfNullable(selectedPath),
   fileSize |-> 0,
   duration |-> Duration(transferStartTime, Now),
   startTime |-> StartOrEnd(transferStartTime, Now),
   endTime |-> Now,
   wasStopped |-> Some(TRUE)]

\* The 'transfer-failed' listener goes on to build metadata.
FailureAccepted_Always == TRUE

FailureAccepted == ~wasManuallyStopped

\* The 'transfer-failed' listener.
OnFailed ==
  /\ shareStarted
  /\ \/ /\ ~FailureAccepted
        /\ UNCHANGED vars
     \/ /\ FailureAccepted
        /\ InFlight + 2 <= MaxInFlight
        /\ progressUpdateTimeout' = Null
        /\ transferProgress' = Null
        /\ SyncLastProgress(lastProgress)
        /\ transferMetadata' = Some(FailedMetadata)
        /\ failedTimers' = failedTimers + 1
        /\ failedDecayTimers' = failedDecayTimers + 1
        /\ UNCHANGED <<senderStatus, ticket, selectedPath, pathType, isLoading,
                       transferStartTime, wasManuallyStopped, alertDialog,
                       checkPathPending, startPending, stopPending,
                       fileSizePending, completeTimers, stopDecayTimers>>
        /\ UNCHANGED <<shareStarted, cleanupPending, listeners>>
        /\ Track

\* The setTimeout(..., 0) callback of the failed listener.
FailedTimerFires ==
  /\ failedTimers > 0
  /\ failedTimers' = failedTimers - 1
  /\ senderStatus' = TRANSFER_STOPPED
  /\ UNCHANGED <<ticket, selectedPath, pathType, isLoading, transferMetadata,
                 transferProgress, transferStartTime, wasManuallyStopped,
                 lastProgress, alertDialog, progressUpdateTimeout,
                 checkPathPending, startPending, stopPending,
                 fileSizePending, completeTimers, failedDecayTimers,
                 stopDecayTimers>>
  /\ UNCHANGED <<shareStarted, cleanupPending, listeners>>
  /\ Track

\* The setTimeout(..., 2000) callback of the failed listener.  Each one was
\* armed together with a setTimeout(..., 0) of the same listener, which
\* expires first: one may fire only when fewer of those are still armed.
FailedDecayTimerFires ==
  /\ failedDecayTimers > failedTimers
  /\ failedDecayTimers' = failedDecayTimers - 1
  /\ senderStatus' = IDLE
  /\ transferMetadata' = Null
  /\ UNCHANGED <<ticket, selectedPath, pathType, isLoading, transferProgress,
                 transferStartTime, wasManuallyStopped, lastProgress,
                 alertDialog, progressUpdateTimeout, checkPathPending,
                 startPending, stopPending, fileSizePending, completeTimers,
                 failedTimers, stopDecayTimers>>
  /\ UNCHANGED <<shareStarted, cleanupPending, listeners>>
  /\ Track

(* ---------------------- listener setup effect ------------------------- *)

\* The effect's cleanup is outstanding: React runs the effect (deps []) when
\* the hook mounts and its cleanup when the hook is disposed, in turn.
EffectActive == \E i \in 1..Len(setups) : ~setups[i].disposed

\* The setup effect runs: with the ref set it returns at once; otherwise it
\* sets the ref and calls setupListeners, whose first listen call is awaited.
SetupEffect ==
  /\ ~EffectActive
  /\ Len(setups) < MaxSetups
  /\ IF listenersSetupRef
        THEN UNCHANGED listeners
        ELSE /\ listenersSetupRef' = TRUE
             /\ setups' = Append(setups, NewSetup)
  /\ UNCHANGED <<senderStatus, ticket, selectedPath, pathType, isLoading,
                 transferMetadata, transferProgress, transferStartTime,
                 wasManuallyStopped, lastProgress, alertDialog, timers,
                 pending, shareStarted>>
  /\ Track

\* The awaited listen call of run i resolves: the listener is registered, its
\* unlisten function is assigned, and setupListeners goes on to the next
\* listen call.  Nothing stops setupListeners when the run is disposed.
ListenResolved(i) ==
  /\ Cardinality(setups[i].handles) < Len(Events)
  /\ LET event == Events[Cardinality(setups[i].handles) + 1]
     IN  setups' = [setups EXCEPT ![i].handles = @ \cup {event},
                                 ![i].installed = @ \cup {event}]
  /\ UNCHANGED <<senderStatus, ticket, selectedPath, pathType, isLoading,
                 transferMetadata, transferProgress, transferStartTime,
                 wasManuallyStopped, lastProgress, alertDialog, timers,
                 pending, shareStarted, listenersSetupRef>>
  /\ Track

\* The cleanup returned by run i is called: it clears the ref, cancels the
\* debounce timer and calls the unlisten functions assigned so far.
Cleanup(i) ==
  /\ ~setups[i].disposed
  /\ listenersSetupRef' = FALSE
  /\ progressUpdateTimeout' = Null
  /\ setups' = [setups EXCEPT ![i].installed = @ \ setups[i].handles,
                              ![i].disposed = TRUE]
  /\ UNCHANGED <<senderStatus, ticket, selectedPath, pathType, isLoading,
                 transferMetadata, transferProgress, transferStartTime,
                 wasManuallyStopped, lastProgress, alertDialog,
                 completeTimers, failedTimers, failedDecayTimers,
                 stopDecayTimers, pending, shareStarted>>
  /\ Track

(* --------------------------- specification ---------------------------- *)

\* A continuation of an awaited backend call runs.
Settle ==
  \/ \E path \in Paths, type \in PathTypes : CheckPathTypeResolved(path, type)
  \/ \E path \in Paths : CheckPathTypeRejected(path)
  \/ \E call \in BagToSet(startPending), result \in Tickets :
       StartSharingResolved(call, result)
  \/ \E call \in BagToSet(startPending) : StartSharingRejected(call)
  \/ \E currentStatus \in BagToSet(stopPending) :
       StopSharingResolved(currentStatus)
  \/ \E currentStatus \in BagToSet(stopPending) :
       StopSharingRejected(currentStatus)
  \/ \E call \in BagToSet(fileSizePending), fileSize \in FileSizes \cup {0} :
       GetFileSizeSettled(call, fileSize)
  \/ CleanupSettled

\* An armed timer fires.
TimerFires ==
  \/ ProgressTimerFires
  \/ CompleteTimerFires
  \/ FailedTimerFires
  \/ FailedDecayTimerFires
  \/ StopDecayTimerFires

Next ==
  \/ \E path \in Paths : HandleFileSelect(path)
  \/ StartSharing
  \/ StopSharing
  \/ CloseAlert
  \/ \E payload \in Payloads : OnProgress(payload)
  \/ OnCompleted
  \/ OnFailed
  \/ Settle
  \/ TimerFires

Spec == Init /\ [][Next]_vars

\* The same program when the backend also emits a payload with a field that
\* is not a number.
NextWithNaN ==
  \/ Next
  \/ OnProgress(PayloadNaN)

SpecWithNaN == Init /\ [][NextWithNaN]_vars

\* The life of the listener setup effect from the first render on: the hook
\* is mounted and disposed any number of times while the listen calls of
\* every run resolve in their own time.
ListenerNext ==
  \/ SetupEffect
  \/ \E i \in 1..Len(setups) : ListenResolved(i)
  \/ \E i \in 1..Len(setups) : Cleanup(i)

ListenerSpec == MountInit /\ [][ListenerNext]_vars

\* An awaited stop_sharing call made in currentStatus settles.
StopSharingSettled(currentStatus) ==
  StopSharingResolved(currentStatus) \/ StopSharingRejected(currentStatus)

\* An awaited call of each other kind settles.
OtherCallSettled ==
  \/ \E path \in Paths, type \in PathTypes : CheckPathTypeResolved(path, type)
  \/ \E path \in Paths : CheckPathTypeRejected(path)
  \/ \E call \in BagToSet(startPending), result \in Tickets :
       StartSharingResolved(call, result)
  \/ \E call \in BagToSet(startPending) : StartSharingRejected(call)
  \/ \E call \in BagToSet(fileSizePending), fileSize \in FileSizes \cup {0} :
       GetFileSizeSettled(call, fileSize)
  \/ CleanupSettled

\* The event loop runs every continuation of a settled backend call and
\* every callback of an armed setTimeout(..., 0) or setTimeout(..., 2000):
\* no code cancels those timers.  The debounce timer is cancelled by every
\* new sample, so nothing is assumed of it.
FairSpec ==
  /\ Spec
  /\ \A currentStatus \in Sharing : WF_vars(StopSharingSettled(currentStatus))
  /\ WF_vars(OtherCallSettled)
  /\ WF_vars(CompleteTimerFires)
  /\ WF_vars(FailedTimerFires)
  /\ WF_vars(FailedDecayTimerFires)
  /\ WF_vars(StopDecayTimerFires)

(* ------------------------------ claims -------------------------------- *)

\* C1: between the status entering TRANSFERRING and the next time it is IDLE,
\* the status enters a terminal state (TRANSFER_COMPLETE, TRANSFER_STOPPED) at
\* most once, and once it has, the metadata is not replaced.
C1_OneTerminalOutcome ==
  [][/\ outcomes' <= 1
     /\ (outcomes >= 1 /\ outcomes' >= 1)
          => transferMetadata' = transferMetadata]_vars

\* C2: a 'completed' notification received while the status is not
\* TRANSFERRING changes nothing: no status, no metadata, and no continuation
\* or timer that could change them later.
C2_CompletedOutsideTransferringIgnored ==
  [][(OnCompleted /\ senderStatus # TRANSFERRING) => UNCHANGED vars]_vars

\* C2 witness: the receiver has not yet connected (the ticket is out, no
\* progress has arrived, nothing was stopped), where a handshake-only
\* 'completed' arrives.
C2_Witness ==
  /\ senderStatus = WAITING_FOR_RECEIVER
  /\ ticket # Null
  /\ ~wasManuallyStopped
  /\ lastProgress = Null

C4_IdleClearsAll ==
  [][(senderStatus # IDLE /\ senderStatus' = IDLE)
       => /\ ticket' = Null
          /\ selectedPath' = Null
          /\ pathType' = Null
          /\ transferProgress' = Null
          /\ transferMetadata' = Null
          /\ ~wasManuallyStopped']_vars

\* C5: every step into IDLE leaves no auto-decay timer and no debounce timer
\* armed.
C5_TimersCancelledOnReset ==
  [][(senderStatus # IDLE /\ senderStatus' = IDLE)
       => /\ progressUpdateTimeout' = Null
          /\ stopDecayTimers' = 0
          /\ failedDecayTimers' = 0]_vars

\* C6: stopSharing in TRANSFERRING makes the status TRANSFER_STOPPED with
\* wasStopped metadata in that step, and from then on the status eventually
\* is IDLE with the metadata cleared, whether the cancel call resolves or
\* rejects.
C6_StopDecaysToIdle ==
  /\ [][(StopSharing /\ senderStatus = TRANSFERRING)
          => /\ senderStatus' = TRANSFER_STOPPED
             /\ transferMetadata' # Null
             /\ transferMetadata'[1].wasStopped = Some(TRUE)]_vars
  /\ (senderStatus = TRANSFER_STOPPED /\ wasManuallyStopped)
       ~> (senderStatus = IDLE /\ transferMetadata = Null)

\* C7: metadata is present exactly when the status is TRANSFER_COMPLETE or
\* TRANSFER_STOPPED.
C7_MetadataIffTerminal ==
  (transferMetadata # Null) <=> (senderStatus \in Terminal)

LegalStep ==
  \/ /\ senderStatus = IDLE
     /\ senderStatus' = FILE_SELECTED
     /\ \E path \in Paths, type \in PathTypes :
          CheckPathTypeResolved(path, type)
  \/ /\ senderStatus = FILE_SELECTED
     /\ senderStatus' = WAITING_FOR_RECEIVER
     /\ \E call \in BagToSet(startPending), result \in Tickets :
          StartSharingResolved(call, result)
  \/ /\ senderStatus = WAITING_FOR_RECEIVER
     /\ senderStatus' = TRANSFERRING
     /\ \E payload \in Payloads : OnProgress(payload)
  \/ /\ senderStatus = WAITING_FOR_RECEIVER
     /\ senderStatus' = IDLE
     /\ StopSharingResolved(WAITING_FOR_RECEIVER)
  \/ /\ senderStatus = TRANSFERRING
     /\ senderStatus' = TRANSFER_COMPLETE
     /\ CompleteTimerFires
  \/ /\ senderStatus = TRANSFERRING
     /\ senderStatus' = TRANSFER_STOPPED
     /\ StopSharing
  \/ /\ senderStatus' = TRANSFER_STOPPED
     /\ FailedTimerFires
  \/ /\ senderStatus = TRANSFER_STOPPED
     /\ senderStatus' = IDLE
     /\ (StopDecayTimerFires \/ FailedDecayTimerFires \/ StopSharing)
  \/ /\ senderStatus = TRANSFER_COMPLETE
     /\ senderStatus' = IDLE
     /\ StopSharing

\* C9: every change of the status follows an edge of the legal-transition
\* table, taken by that edge's trigger.
C9_LegalTransitions == [][senderStatus' # senderStatus => LegalStep]_vars

\* C10: a continuation that finds the state changed while it was awaited
\* commits nothing: no status, no metadata, no ticket, no timer that would
\* change the status.  The file-size continuation was issued in TRANSFERRING
\* with the manual-stop flag clear, the stop continuation in
\* WAITING_FOR_RECEIVER, and the start continuation with the selection it
\* passed to the backend, which only a reset to IDLE removes.
C10_ContinuationsRecheck ==
  [][/\ ((\E call \in BagToSet(fileSizePending), fileSize \in FileSizes \cup {0} :
            GetFileSizeSettled(call, fileSize))
          /\ (senderStatus # TRANSFERRING \/ wasManuallyStopped))
         => UNCHANGED <<senderStatus, transferMetadata, ticket, completeTimers>>
     /\ \A call \in BagToSet(startPending) :
          ((\E result \in Tickets : StartSharingResolved(call, result))
            /\ selectedPath # Some(call.path))
           => UNCHANGED <<senderStatus, transferMetadata, ticket>>
     /\ (StopSharingResolved(WAITING_FOR_RECEIVER)
          /\ senderStatus # WAITING_FOR_RECEIVER)
         => UNCHANGED <<senderStatus, transferMetadata, ticket>>]_vars

\* C11: whenever metadata is present, its wasStopped is true exactly when the
\* status is TRANSFER_STOPPED and false (or absent, which reads as false)
\* exactly when the status is TRANSFER_COMPLETE.
C11_WasStoppedMatchesStatus ==
  transferMetadata # Null =>
    /\ (transferMetadata[1].wasStopped = Some(TRUE))
         <=> (senderStatus = TRANSFER_STOPPED)
    /\ (transferMetadata[1].wasStopped # Some(TRUE))
         <=> (senderStatus = TRANSFER_COMPLETE)

\* C12: a resolved start_sharing stores the returned ticket and sets the
\* status to WAITING_FOR_RECEIVER in one step; a rejected one opens the alert
\* and leaves status, ticket, selection, progress and metadata as they are;
\* the call itself changes none of them, and without a selection startSharing
\* changes nothing and issues no backend call.
C12_StartSharingOutcome ==
  [][/\ \A call \in BagToSet(startPending) :
          /\ \A result \in Tickets :
               \/ /\ ticket' = Some(result)
                  /\ senderStatus' = WAITING_FOR_RECEIVER
               \/ ~StartSharingResolved(call, result)
          /\ \/ /\ alertDialog'.isOpen
                /\ UNCHANGED <<senderStatus, ticket, selectedPath, pathType,
                               transferProgress, transferMetadata>>
             \/ ~StartSharingRejected(call)
     /\ \/ UNCHANGED <<senderStatus, ticket, selectedPath, pathType,
                       transferProgress, transferMetadata>>
        \/ ~StartSharing
     /\ \/ TruthyStr(selectedPath)
        \/ UNCHANGED vars
        \/ ~StartSharing]_vars

\* A start_sharing call was rejected before any had resolved: the alert is
\* open (only a rejected start or stop opens it, and no stop has been awaited
\* yet), the selection is kept and there is no ticket.
C12_Witness ==
  /\ ~shareStarted
  /\ alertDialog.isOpen
  /\ senderStatus = FILE_SELECTED
  /\ selectedPath # Null
  /\ ticket = Null
  /\ startPending = EmptyBag

\* C13: when check_path_type rejects, status, path kind and alert stay as
\* they are, and the path of the failed call is not left selected (unless it
\* was already selected and classified before the call).
C13_FailedClassificationChangesNothing ==
  [][\A path \in Paths :
       CheckPathTypeRejected(path)
         => /\ UNCHANGED <<senderStatus, pathType, alertDialog>>
            /\ selectedPath' = Some(path) => pathType # Null]_vars

\* A payload that is not three colon-separated integers.
Malformed(payload) ==
  LET parts == Split(payload, ":")
  IN \/ Len(parts) # 3
     \/ \E i \in 1..Len(parts) : ParseInt(parts[i]) = NaN

\* C14: the progress listener drops a malformed payload: status, latest
\* sample, visible progress and debounce timer stay as they are.
C14_MalformedPayloadDropped ==
  [][\A payload \in PayloadsWithNaN :
       (Malformed(payload) /\ OnProgress(payload))
         => UNCHANGED <<senderStatus, lastProgress, transferProgress,
                        progressUpdateTimeout>>]_vars

\* C15: a processed sample replaces the pending visible update; the debounce
\* callback makes exactly the pending sample visible and leaves none pending;
\* and the visible progress takes a new sample by no other step.
C15_LatestSampleBecomesVisible ==
  [][/\ \A payload \in DOMAIN PayloadData :
          \/ progressUpdateTimeout' = Some(PayloadData[payload])
          \/ ~OnProgress(payload)
     /\ \/ /\ transferProgress' = progressUpdateTimeout
           /\ progressUpdateTimeout' = Null
        \/ ~ProgressTimerFires
     /\ (transferProgress' # transferProgress /\ transferProgress' # Null)
          => ProgressTimerFires]_vars

\* Two samples inside one debounce window.  The status entered TRANSFERRING
\* with a sample of totalBytes > 0, which cleared the visible progress and
\* armed the timer; the visible progress is still empty and no completion or
\* failure is in progress, so the timer has not fired since; and the sample
\* now pending is the later "0:0:0".
C15_Witness ==
  /\ senderStatus = TRANSFERRING
  /\ transferProgress = Null
  /\ progressUpdateTimeout = Some(PayloadData[PayloadZero])
  /\ fileSizePending = EmptyBag
  /\ completeTimers = 0
  /\ failedTimers = 0
  /\ failedDecayTimers = 0

\* C16: the latest-sample reference takes each processed sample and keeps it
\* until the next sample is processed or the machine is reset to IDLE.
C16_LatestSampleKept ==
  [][/\ \A payload \in DOMAIN PayloadData :
          \/ lastProgress' = Some(PayloadData[payload])
          \/ ~OnProgress(payload)
     /\ \/ lastProgress' = lastProgress
        \/ senderStatus' = IDLE
        \/ \E payload \in DOMAIN PayloadData : OnProgress(payload)]_vars

\* C17: stopSharing (resetForNewTransfer) called in TRANSFER_COMPLETE or
\* TRANSFER_STOPPED sets the status to IDLE and clears the manual-stop flag in
\* the step of the call, awaits nothing and opens no alert; the cleanup call
\* it leaves behind changes nothing when it settles.
C17_ResetIsImmediate ==
  [][/\ \/ senderStatus \notin Terminal
        \/ /\ senderStatus' = IDLE
           /\ ~wasManuallyStopped'
           /\ UNCHANGED <<alertDialog, stopPending>>
        \/ ~StopSharing
     /\ \/ UNCHANGED <<senderStatus, ticket, selectedPath, pathType, isLoading,
                       transferMetadata, transferProgress, transferStartTime,
                       wasManuallyStopped, lastProgress, alertDialog, timers,
                       checkPathPending, startPending, stopPending,
                       fileSizePending>>
        \/ ~CleanupSettled]_vars

\* A reset has been made and its cleanup call has not settled yet.
C17_Witness ==
  /\ senderStatus = IDLE
  /\ cleanupPending > 0
  /\ ~wasManuallyStopped
  /\ ticket = Null

\* C18: stopSharing called in IDLE or FILE_SELECTED changes nothing: no
\* variable, no awaited call, no timer, no alert.
C18_StopWithoutShareIsNoOp ==
  [][\/ senderStatus \notin {IDLE, FILE_SELECTED}
     \/ UNCHANGED vars
     \/ ~StopSharing]_vars

\* A classified selection that a reset would have removed, with a ticket
\* left behind that a reset would have cleared.
C18_Witness ==
  /\ senderStatus = FILE_SELECTED
  /\ selectedPath # Null
  /\ pathType # Null
  /\ ticket # Null

\* C19: the status moves from WAITING_FOR_RECEIVER to TRANSFERRING only by
\* processing a well-formed sample with totalBytes > 0, and always does so
\* then; a well-formed sample with totalBytes <= 0, and any sample processed
\* in another status, leaves status, metadata and manual-stop flag alone.
C19_TransferStartsOnValidSample ==
  [][/\ (senderStatus = WAITING_FOR_RECEIVER /\ senderStatus' = TRANSFERRING)
          => \E payload \in DOMAIN PayloadData :
               /\ ~Malformed(payload)
               /\ PayloadData[payload].totalBytes > 0
               /\ OnProgress(payload)
     /\ \A payload \in DOMAIN PayloadData :
          /\ ( /\ ~Malformed(payload)
               /\ PayloadData[payload].totalBytes > 0
               /\ senderStatus = WAITING_FOR_RECEIVER
               /\ OnProgress(payload) )
               => senderStatus' = TRANSFERRING
          /\ ( /\ \/ senderStatus # WAITING_FOR_RECEIVER
                  \/ /\ ~Malformed(payload)
                     /\ PayloadData[payload].totalBytes <= 0
               /\ OnProgress(payload) )
               => UNCHANGED <<senderStatus, transferMetadata,
                              wasManuallyStopped>>]_vars

\* C20: right after the status enters WAITING_FOR_RECEIVER or TRANSFERRING
\* there is neither metadata nor visible progress.
C20_EnteringShareClearsLeftovers ==
  [][(senderStatus' # senderStatus /\ senderStatus' \in Sharing)
       => /\ transferMetadata' = Null
          /\ transferProgress' = Null]_vars

\* C22: whenever the status is TRANSFER_COMPLETE the transfer metadata is
\* present.
C22_CompleteHasMetadata ==
  senderStatus = TRANSFER_COMPLETE => transferMetadata # Null

\* The runs of the setup effect whose listener for an event is registered.
Listening(event) == {i \in 1..Len(setups) : event \in setups[i].installed}

\* C21: at any time at most one listener is installed for each of the three
\* events, and a disposed run of the setup effect has no listener installed.
C21_OneListenerSetNoneAfterDisposal ==
  /\ \A event \in EventNames : Cardinality(Listening(event)) <= 1
  /\ \A i \in 1..Len(setups) :
       setups[i].disposed => setups[i].installed = {}

====
